---- MODULE Spec2Model ----
(***************************************************************************)
(* Model of the Seal -> Shopify Flow proxy (src/server.js).  The file      *)
(* holds two variants of the POST /flow/order-created handler: the "full"  *)
(* variant (lines 1-235: context resolution, subscription lookup, tagging) *)
(* and the "seal-only" variant (lines 237-360: subscription search only).  *)
(* One request is followed from its arrival to its response; every remote  *)
(* call is a message in flight whose answer is chosen nondeterministically.*)
(***************************************************************************)
EXTENDS Integers, Sequences, FiniteSets, TLC

VARIABLES
  mode,        \* which variant of the handler serves the request: "full" or "sealOnly"
  env,         \* process.env: the per-region settings and DEBUG_ERRORS
  req,         \* the request: the body fields and the X-Flow-Secret header
  pc,          \* the await at which the handler is suspended; "done" once it has responded
  ctx,         \* the locals orderId, orderName, customerId, email of ensureOrderContext
  ensured,     \* the handler's `ensured`, undefined until ensureOrderContext has returned
  subs,        \* the handler's `subs`
  fetch,       \* one slot per promise handed to Promise.all
  minimal,     \* the handler's `minimal`
  tags,        \* the handler's `tags`
  tagResults,  \* the handler's `tagResults`
  tagOutcome,  \* what each invocation of tagsAdd did: returned a value or threw
  response,    \* the HTTP response, status 0 while none has been sent
  calls        \* every remote call issued so far, in order of issue, with its state

vars == <<mode, env, req, pc, ctx, ensured, subs, fetch, minimal, tags, tagResults, tagOutcome,
          response, calls>>

(***************************************************************************)
(* Bounds of the model.                                                    *)
(***************************************************************************)
\* longest subscription list the search answers with
MaxSubs == 2
\* longest secret / header string enumerated over SecretAlphabet
MaxSecretLen == 2
\* longest shop label enumerated over LabelAlphabet
MaxLabelLen == 2

(***************************************************************************)
(* JavaScript values.  Every value is a record tagged by k.  A string is a *)
(* sequence of characters; an opaque token (an id, an e-mail address, a    *)
(* fixed message) is a sequence holding the token as one piece.            *)
(***************************************************************************)
undefined == [k |-> "undefined"]
null == [k |-> "null"]
Str(s) == [k |-> "str", v |-> s]
Num(n) == [k |-> "num", v |-> n]
Arr(s) == [k |-> "arr", v |-> s]
EmptyObj == [k |-> "obj"]

\* ToBoolean
Truthy(x) ==
  CASE x.k = "undefined" -> FALSE
    [] x.k = "null" -> FALSE
    [] x.k = "str" -> x.v # <<>>
    [] x.k = "num" -> x.v # 0
    [] OTHER -> TRUE

\* a || b
Or(a, b) == IF Truthy(a) THEN a ELSE b

\* a ?? b
Coalesce(a, b) == IF a.k \in {"undefined", "null"} THEN b ELSE a

\* o?.f
Get(o, f) == IF o.k = "obj" /\ f \in DOMAIN o THEN o[f] ELSE undefined

RECURSIVE Digits(_)
\* decimal digits of a natural number, as Number.prototype.toString gives them
Digits(n) ==
  LET d == <<"0", "1", "2", "3", "4", "5", "6", "7", "8", "9">>
  IN IF n < 10 THEN <<d[n + 1]>> ELSE Digits(n \div 10) \o <<d[(n % 10) + 1]>>

\* String(x), also the conversion of a template literal `${x}`
String(x) ==
  CASE x.k = "undefined" -> <<"u", "n", "d", "e", "f", "i", "n", "e", "d">>
    [] x.k = "null" -> <<"n", "u", "l", "l">>
    [] x.k = "str" -> x.v
    [] x.k = "num" -> Digits(x.v)
    [] OTHER -> <<"[object Object]">>

Lower == <<"a", "b", "c", "d", "e", "f", "g", "h", "i", "j", "k", "l", "m",
           "n", "o", "p", "q", "r", "s", "t", "u", "v", "w", "x", "y", "z">>
Numerals == <<"0", "1", "2", "3", "4", "5", "6", "7", "8", "9">>

\* UTF-8 encoding of one character; "U+00E9" etc. name non-ASCII code points
Utf8Char(c) ==
  CASE c \in {Lower[i] : i \in 1..26} -> <<96 + (CHOOSE i \in 1..26 : Lower[i] = c)>>
    [] c \in {Numerals[i] : i \in 1..10} -> <<47 + (CHOOSE i \in 1..10 : Numerals[i] = c)>>
    [] c = "-" -> <<45>>
    [] c = "." -> <<46>>
    [] c = "#" -> <<35>>
    [] c = "A" -> <<65>>
    [] c = "_" -> <<95>>
    [] c = "U+00E9" -> <<195, 169>>
    [] c = "U+00C3" -> <<195, 131>>
    [] c = "U+00A9" -> <<194, 169>>

RECURSIVE Utf8(_)
\* Buffer.from(s, 'utf8')
Utf8(s) == IF s = <<>> THEN <<>> ELSE Utf8Char(Head(s)) \o Utf8(Tail(s))

\* crypto.timingSafeEqual on two buffers of the same length
timingSafeEqual(A, B) == \A i \in 1..Len(A) : A[i] = B[i]

(***************************************************************************)
(* Shop-domain validation and the shared-secret comparison.                *)
(***************************************************************************)
MyshopifySuffix == <<".", "m", "y", "s", "h", "o", "p", "i", "f", "y", ".", "c", "o", "m">>

\* the character class [a-z0-9-]
LabelClass == {Lower[i] : i \in 1..26} \cup {Numerals[i] : i \in 1..10} \cup {"-"}

\* the pattern with its dots left unescaped: /^[a-z0-9-]+.myshopify.com$/
ShopRegexTestUnescapedDot(s) ==
  LET n == Len(s)
      m == Len(MyshopifySuffix)
  IN /\ n > m
     /\ \A j \in 1..m : MyshopifySuffix[j] = "." \/ s[n - m + j] = MyshopifySuffix[j]
     /\ \A i \in 1..(n - m) : s[i] \in LabelClass

\* /^[a-z0-9-]+\.myshopify\.com$/ on a string
ShopRegexTest(s) ==
  LET n == Len(s)
      m == Len(MyshopifySuffix)
  IN /\ n > m
     /\ SubSeq(s, n - m + 1, n) = MyshopifySuffix
     /\ \A i \in 1..(n - m) : s[i] \in LabelClass

\* full variant: RegExp.prototype.test converts its argument with ToString
isValidShop(s) == ShopRegexTest(String(s))

\* seal-only variant: String(s || '')
isValidShopSealOnly(s) == ShopRegexTest(String(Or(s, Str(<<>>))))

\* the comparison reduced to the length check
tscEqualsLengthOnly(a, b) == Len(Utf8(String(a))) = Len(Utf8(String(b)))

\* full variant: Buffer.from(String(a) || '', 'utf8')
tscEquals(a, b) ==
  LET sa == String(a)
      sb == String(b)
      A == Utf8(IF sa # <<>> THEN sa ELSE <<>>)
      B == Utf8(IF sb # <<>> THEN sb ELSE <<>>)
  IN Len(A) = Len(B) /\ timingSafeEqual(A, B)

\* seal-only variant: Buffer.from(String(a||''), 'utf8')
tscEq(a, b) ==
  LET A == Utf8(String(Or(a, Str(<<>>))))
      B == Utf8(String(Or(b, Str(<<>>))))
  IN Len(A) = Len(B) /\ timingSafeEqual(A, B)

(***************************************************************************)
(* Region registry, built once from the environment.  Both variants read   *)
(* the same SHOP_DOMAIN_*, SEAL_SUBS_TOKEN_* and SEAL_SUBS_SECRET_*        *)
(* variables; the seal-only variant names the fields token and secret and  *)
(* reads no admin token.                                                   *)
(***************************************************************************)
Codes == <<"UK", "EU", "US">>

Region(code) ==
  [k |-> "obj", code |-> code, shop |-> env.shop[code], sealToken |-> env.sealToken[code],
   flowSecret |-> env.flowSecret[code], shopifyToken |-> env.shopifyToken[code]]

\* [ ... ].filter(r => r.shop)
regions == SelectSeq([i \in 1..Len(Codes) |-> Region(Codes[i])], LAMBDA r : Truthy(r.shop))

\* byShop.get(s) on new Map(regions.map(r => [r.shop, r])): a later entry
\* with the same key replaces an earlier one
byShopGet(s) ==
  LET ix == {i \in 1..Len(regions) : regions[i].shop = s}
  IN IF ix = {} THEN undefined ELSE regions[CHOOSE i \in ix : \A j \in ix : j <= i]

\* full variant: process.env.DEBUG_ERRORS === 'true'
debugFull == env.DEBUG_ERRORS = Str(<<"t", "r", "u", "e">>)

\* toLowerCase on the characters the model uses
LowerCase(s) ==
  LET up == <<"A", "B", "C", "D", "E", "F", "G", "H", "I", "J", "K", "L", "M",
              "N", "O", "P", "Q", "R", "S", "T", "U", "V", "W", "X", "Y", "Z">>
  IN [i \in 1..Len(s) |->
        IF \E j \in 1..26 : up[j] = s[i] THEN Lower[CHOOSE j \in 1..26 : up[j] = s[i]] ELSE s[i]]

\* seal-only variant: DEBUG_ERRORS = 'false' by default; (DEBUG_ERRORS || '').toLowerCase() === 'true'
debug ==
  LET v == IF env.DEBUG_ERRORS = undefined THEN Str(<<"f", "a", "l", "s", "e">>) ELSE env.DEBUG_ERRORS
  IN LowerCase(String(Or(v, Str(<<>>)))) = <<"t", "r", "u", "e">>

(***************************************************************************)
(* HTTP answers of the two remote APIs.  An answer is either a network     *)
(* failure (fetch rejects) or a response with a status and a body text;    *)
(* the text is malformed or the JSON of a value.                           *)
(***************************************************************************)
NetErr == [k |-> "neterr"]
Malformed == [k |-> "malformed"]
Json(v) == [k |-> "json", v |-> v]
Http(ok, status, text) == [k |-> "http", ok |-> ok, status |-> status, text |-> text]

\* outcome of an async function: it returns a value or throws an Error
Return(v) == [k |-> "returned", v |-> v]
Throw(msg) == [k |-> "threw", msg |-> msg]

\* full variant: function safeJson(text) { try { return JSON.parse(text); } catch { return {}; } }
safeJson(text) == IF text.k = "malformed" THEN EmptyObj ELSE text.v

\* seal-only variant: ... catch { return null; }
safeJsonSealOnly(text) == IF text.k = "malformed" THEN null ELSE text.v

\* sealSearchByEmail, from the answer of its fetch
sealSearchByEmail(http) ==
  IF http.k = "neterr" THEN Throw("fetch failed")
  ELSE IF ~http.ok THEN Throw("Seal search failed")
  ELSE LET data == safeJson(http.text)
       IN Return(IF data.k = "arr" THEN data ELSE Coalesce(Get(data, "payload"), Arr(<<>>)))

\* sealGetById, from the answer of its fetch
sealGetById(http) ==
  IF http.k = "neterr" THEN Throw("fetch failed")
  ELSE IF ~http.ok THEN Throw("Seal get failed")
  ELSE LET json == safeJson(http.text)
       IN Return(Or(Get(json, "payload"), json))

\* shopifyGraphQL, from the answer of its fetch
shopifyGraphQL(http) ==
  IF http.k = "neterr" THEN Throw("fetch failed")
  ELSE IF http.text.k = "malformed" THEN Throw("Unexpected token in JSON")
  ELSE LET json == http.text.v
       IN IF json.k \in {"null", "undefined"} THEN Throw("Cannot read properties of null")
          ELSE IF ~http.ok \/ Truthy(Get(json, "errors")) THEN Throw("Shopify GraphQL failed")
          ELSE Return(Get(json, "data"))

\* findOrderByName: resp?.orders?.nodes?.[0] || null
findOrderByName(resp) ==
  LET nodes == Get(Get(resp, "orders"), "nodes")
      first == IF nodes.k = "arr" /\ Len(nodes.v) >= 1 THEN nodes.v[1] ELSE undefined
  IN Or(first, null)

\* findOrderByName: `name:${orderName.startsWith('#') ? orderName : '#' + orderName}`
NameQuery(orderName) ==
  <<"name:">> \o (IF Head(orderName.v) = "#" THEN orderName.v ELSE <<"#">> \o orderName.v)

\* getOrderById: resp?.order || null
getOrderById(resp) == Or(Get(resp, "order"), null)

(***************************************************************************)
(* Context resolution (ensureOrderContext), one step per await.            *)
(***************************************************************************)
Ctx(orderId, orderName, customerId, email) ==
  [orderId |-> orderId, orderName |-> orderName, customerId |-> customerId, email |-> email]

\* line 161: nothing to resolve
AllPresent(c) ==
  Truthy(c.orderId) /\ Truthy(c.customerId) /\ Truthy(c.email) /\ Truthy(c.orderName)

\* line 166: look the order up by name
NeedsByName(c) == ~Truthy(c.orderId) /\ Truthy(c.orderName)

\* lines 168-171: merge of the order found by name
MergeFound(c, found) ==
  Ctx(Or(Get(found, "id"), c.orderId),
      Or(Get(found, "name"), c.orderName),
      Or(Get(Get(found, "customer"), "id"), c.customerId),
      Or(Get(found, "email"), c.email))

\* line 175: fetch the order by id
NeedsById(c) ==
  (~Truthy(c.email) \/ ~Truthy(c.customerId) \/ ~Truthy(c.orderName)) /\ Truthy(c.orderId)

\* lines 177-179: merge of the order fetched by id
MergeGot(c, got) ==
  Ctx(c.orderId,
      Or(Get(got, "name"), c.orderName),
      Or(Or(c.customerId, Get(Get(got, "customer"), "id")), null),
      Or(Or(Or(c.email, Get(got, "email")), Get(Get(got, "customer"), "email")), null))

(***************************************************************************)
(* Tag derivation (lines 90-99) and the tag writer (tagsAdd).              *)
(***************************************************************************)
\* details.map(d => ({ id: d.id, billing_min_cycles: d.billing_min_cycles ?? null }))
Minimal(details) ==
  [i \in 1..Len(details) |->
     [k |-> "obj", id |-> Get(details[i], "id"),
      billing_min_cycles |-> Coalesce(Get(details[i], "billing_min_cycles"), null)]]

\* `seal_sub_id_${m.id}`
IdTag(m) == <<"seal_sub_id_">> \o String(m.id)

\* `seal_min_cycles_${m.billing_min_cycles}`
CyclesTag(m) == <<"seal_min_cycles_">> \o String(m.billing_min_cycles)

\* the filter written as a truthiness test: filter(m => m.billing_min_cycles)
HasCyclesTruthy(m) == Truthy(m.billing_min_cycles)

\* m.billing_min_cycles != null
HasCycles(m) == m.billing_min_cycles.k \notin {"null", "undefined"}

\* the min-cycles tags taken from the last record of each id only
deriveTagsLastPerId(min) ==
  LET last == {i \in 1..Len(min) :
                 \A j \in (i + 1)..Len(min) : String(min[j].id) # String(min[i].id)}
      cyc[i \in 0..Len(min)] ==
        IF i = 0 THEN <<>>
        ELSE IF i \in last /\ HasCycles(min[i]) THEN Append(cyc[i - 1], CyclesTag(min[i]))
        ELSE cyc[i - 1]
  IN [i \in 1..Len(min) |-> IdTag(min[i])] \o cyc[Len(min)]

\* the tags array of lines 96-99
deriveTags(min) ==
  [i \in 1..Len(min) |-> IdTag(min[i])]
    \o LET kept == SelectSeq(min, HasCycles)
       IN [i \in 1..Len(kept) |-> CyclesTag(kept[i])]

RECURSIVE Dedupe(_)
\* Array.from(new Set(tags)): the first occurrence of each tag, in order
Dedupe(t) ==
  IF t = <<>> THEN <<>>
  ELSE LET front == Dedupe(SubSeq(t, 1, Len(t) - 1))
           last == t[Len(t)]
       IN IF \E i \in 1..Len(front) : front[i] = last THEN front ELSE Append(front, last)

\* the early return left out: the mutation is sent with an empty tag list
TagsAddSkipsNever(t) == FALSE

\* tagsAdd: if (!tags?.length) return { skipped: 'no tags to add' }
TagsAddSkips(t) == Len(t) = 0

Skipped == [k |-> "obj", skipped |-> "no tags to add"]

\* the tags sent as they are
TagsAddVariablesRaw(gid, t) == [id |-> gid, tags |-> t]

\* tagsAdd: the variables of the mutation
TagsAddVariables(gid, t) == [id |-> gid, tags |-> Dedupe(t)]

\* tagsAdd: return r?.tagsAdd || r
tagsAddResult(r) == Or(Get(r, "tagsAdd"), r)

\* catch (e) { tagResults.x = { error: e.message || fallback } }
ErrorResult(msg, fallback) == [k |-> "obj", error |-> IF msg # "" THEN msg ELSE fallback]

(***************************************************************************)
(* Responses and the log of remote calls.                                  *)
(***************************************************************************)
NoResponse == [status |-> 0]
NotCalled == [k |-> "notcalled"]

Call(op, api, arg) ==
  [op |-> op, api |-> api, arg |-> arg, state |-> "inflight", answer |-> "none"]

\* what the upstream sent: nothing (connection error, timer), a status outside
\* 200-299, a 2xx whose body is not JSON, or a 2xx with a JSON body
AnswerKind(http) ==
  IF http.k \in {"neterr", "timeout"} THEN http.k
  ELSE IF ~http.ok THEN "non2xx"
  ELSE IF http.text.k = "malformed" THEN "malformed"
  ELSE "json"

\* the log once call i has been answered by http and the wrapper has settled with out
Settle(log, i, out, http) ==
  [log EXCEPT ![i].state = out.k, ![i].answer = AnswerKind(http)]

Respond(st, body, log) ==
  /\ pc' = "done"
  /\ response' = [status |-> st, body |-> body]
  /\ calls' = log

ErrBody(msg) == [error |-> msg]

\* the catch that always reports the exception
Catch500Verbose(msg, log) ==
  Respond(500, [error |-> "Server error", details |-> msg, stack |-> "stack"], log)

\* full variant, lines 126-134: the top-level catch
Catch500(msg, log) ==
  Respond(500,
          IF debugFull THEN [error |-> "Server error", details |-> msg, stack |-> "stack"]
                       ELSE [error |-> "Server error"],
          log)

\* seal-only variant: errRes(res, code, msg, details)
errRes(code, msg, details, log) ==
  Respond(code,
          IF debug /\ Truthy(details) THEN [error |-> msg, details |-> details]
                                      ELSE [error |-> msg],
          log)

(***************************************************************************)
(* Full variant: context resolution up to the subscription search.         *)
(***************************************************************************)
\* the search started before the e-mail check
AfterEnsureSearchFirst(c, log) ==
  /\ ctx' = c
  /\ ensured' = [k |-> "obj", shopDomain |-> req.shopDomain, orderId |-> c.orderId,
                 orderName |-> c.orderName, customerId |-> c.customerId, email |-> c.email]
  /\ IF ~Truthy(c.orderId)
       THEN Respond(400, ErrBody("orderId (gid) required or resolvable"), log)
     ELSE IF ~Truthy(c.email)
       THEN Respond(400, ErrBody("email required (send via Flow or resolvable from order)"),
                    Append(log, Call("sealSearchByEmail", "seal", [email |-> c.email])))
     ELSE /\ pc' = "sealSearch"
          /\ response' = response
          /\ calls' = Append(log, Call("sealSearchByEmail", "seal", [email |-> c.email]))

\* the e-mail check left out
AfterEnsureNoEmailCheck(c, log) ==
  /\ ctx' = c
  /\ ensured' = [k |-> "obj", shopDomain |-> req.shopDomain, orderId |-> c.orderId,
                 orderName |-> c.orderName, customerId |-> c.customerId, email |-> c.email]
  /\ IF ~Truthy(c.orderId)
       THEN Respond(400, ErrBody("orderId (gid) required or resolvable"), log)
     ELSE /\ pc' = "sealSearch"
          /\ response' = response
          /\ calls' = Append(log, Call("sealSearchByEmail", "seal", [email |-> c.email]))

\* lines 79-83: the required-field checks, then the search is issued
AfterEnsure(c, log) ==
  /\ ctx' = c
  /\ ensured' = [k |-> "obj", shopDomain |-> req.shopDomain, orderId |-> c.orderId,
                 orderName |-> c.orderName, customerId |-> c.customerId, email |-> c.email]
  /\ IF ~Truthy(c.orderId)
       THEN Respond(400, ErrBody("orderId (gid) required or resolvable"), log)
     ELSE IF ~Truthy(c.email)
       THEN Respond(400, ErrBody("email required (send via Flow or resolvable from order)"), log)
     ELSE /\ pc' = "sealSearch"
          /\ response' = response
          /\ calls' = Append(log, Call("sealSearchByEmail", "seal", [email |-> c.email]))

\* lines 174-182
EnsureById(c, log) ==
  IF NeedsById(c)
    THEN /\ ctx' = c
         /\ ensured' = ensured
         /\ pc' = "getOrderById"
         /\ response' = response
         /\ calls' = Append(log, Call("getOrderById", "admin", [id |-> c.orderId]))
    ELSE AfterEnsure(c, log)

\* no early return: a known order is fetched by id whatever the context holds
EnsureStartRefetch(c, log) ==
  IF NeedsByName(c)
    THEN /\ ctx' = c
         /\ ensured' = ensured
         /\ IF c.orderName.k # "str"
              THEN Catch500("orderName.startsWith is not a function", log)
              ELSE /\ pc' = "findOrderByName"
                   /\ response' = response
                   /\ calls' = Append(log, Call("findOrderByName", "admin",
                                                [q |-> NameQuery(c.orderName)]))
  ELSE IF Truthy(c.orderId)
    THEN /\ ctx' = c
         /\ ensured' = ensured
         /\ pc' = "getOrderById"
         /\ response' = response
         /\ calls' = Append(log, Call("getOrderById", "admin", [id |-> c.orderId]))
  ELSE AfterEnsure(c, log)

\* lines 161-167
EnsureStart(c, log) ==
  IF AllPresent(c) THEN AfterEnsure(c, log)
  ELSE IF NeedsByName(c)
    THEN /\ ctx' = c
         /\ ensured' = ensured
         /\ IF c.orderName.k # "str"
              THEN Catch500("orderName.startsWith is not a function", log)
              ELSE /\ pc' = "findOrderByName"
                   /\ response' = response
                   /\ calls' = Append(log, Call("findOrderByName", "admin",
                                                [q |-> NameQuery(c.orderName)]))
  ELSE EnsureById(c, log)

\* line 67: the secret check of the full variant
AuthFails(region) == Truthy(region.flowSecret) /\ ~tscEquals(req.secretHdr, region.flowSecret)

\* the credential checks placed before the secret check
ReceiveFullCredentialsFirst ==
  /\ pc = "start"
  /\ mode = "full"
  /\ LET region == byShopGet(req.shopDomain)
     IN IF ~Truthy(req.shopDomain) \/ ~isValidShop(req.shopDomain)
          THEN ctx' = ctx /\ ensured' = ensured /\ Respond(400, ErrBody("Missing or invalid shopDomain"), calls)
        ELSE IF ~Truthy(region)
          THEN ctx' = ctx /\ ensured' = ensured /\ Respond(400, ErrBody("Shop not recognized"), calls)
        ELSE IF ~Truthy(region.sealToken)
          THEN ctx' = ctx /\ ensured' = ensured /\ Respond(500, ErrBody("Seal token not configured for shop"), calls)
        ELSE IF ~Truthy(region.shopifyToken)
          THEN ctx' = ctx /\ ensured' = ensured /\ Respond(500, ErrBody("Shopify token not configured for shop"), calls)
        ELSE IF AuthFails(region)
          THEN ctx' = ctx /\ ensured' = ensured /\ Respond(401, ErrBody("Bad X-Flow-Secret"), calls)
        ELSE EnsureStart(Ctx(req.orderId, req.orderName, req.customerId, req.email), calls)
  /\ UNCHANGED <<mode, env, req, subs, fetch, minimal, tags, tagResults, tagOutcome>>

\* lines 58-77: the handler from the arrival of the request to its first await
ReceiveFull ==
  /\ pc = "start"
  /\ mode = "full"
  /\ LET region == byShopGet(req.shopDomain)
     IN IF ~Truthy(req.shopDomain) \/ ~isValidShop(req.shopDomain)
          THEN ctx' = ctx /\ ensured' = ensured /\ Respond(400, ErrBody("Missing or invalid shopDomain"), calls)
        ELSE IF ~Truthy(region)
          THEN ctx' = ctx /\ ensured' = ensured /\ Respond(400, ErrBody("Shop not recognized"), calls)
        ELSE IF AuthFails(region)
          THEN ctx' = ctx /\ ensured' = ensured /\ Respond(401, ErrBody("Bad X-Flow-Secret"), calls)
        ELSE IF ~Truthy(region.sealToken)
          THEN ctx' = ctx /\ ensured' = ensured /\ Respond(500, ErrBody("Seal token not configured for shop"), calls)
        ELSE IF ~Truthy(region.shopifyToken)
          THEN ctx' = ctx /\ ensured' = ensured /\ Respond(500, ErrBody("Shopify token not configured for shop"), calls)
        ELSE EnsureStart(Ctx(req.orderId, req.orderName, req.customerId, req.email), calls)
  /\ UNCHANGED <<mode, env, req, subs, fetch, minimal, tags, tagResults, tagOutcome>>

(***************************************************************************)
(* Sample values of the request and sample answers of the remote APIs.     *)
(***************************************************************************)
O1 == Str(<<"gid://shopify/Order/1">>)
O2 == Str(<<"gid://shopify/Order/2">>)
C9 == Str(<<"gid://shopify/Customer/9">>)
C8 == Str(<<"gid://shopify/Customer/8">>)
E1 == Str(<<"a@b.com">>)
E2 == Str(<<"c@d.com">>)
N1 == Str(<<"1001">>)
N2 == Str(<<"#", "1001">>)

\* order nodes as the admin API answers the two order queries (id name email customer { id })
OrderNodes ==
  {[k |-> "obj", id |-> O2, name |-> N2, email |-> e, customer |-> c] :
     e \in {null, E2}, c \in {null, [k |-> "obj", id |-> C8]}}

Data(d) == Http(TRUE, 200, Json([k |-> "obj", data |-> d]))

AdminFailures ==
  {NetErr,
   Http(FALSE, 502, Malformed),
   Http(TRUE, 200, Json([k |-> "obj", errors |-> Arr(<<Str(<<"throttled">>)>>)]))}

AdminByNameAnswers ==
  AdminFailures
    \cup {Data([k |-> "obj", orders |-> [k |-> "obj", nodes |-> Arr(<<>>)]])}
    \cup {Data([k |-> "obj", orders |-> [k |-> "obj", nodes |-> Arr(<<n>>)]]) : n \in OrderNodes}

AdminByIdAnswers ==
  AdminFailures
    \cup {Data([k |-> "obj", order |-> null])}
    \cup {Data([k |-> "obj", order |-> n]) : n \in OrderNodes}

AdminTagAnswers ==
  {Http(TRUE, 200, Json([k |-> "obj", errors |-> Arr(<<Str(<<"throttled">>)>>)])),
   Data([k |-> "obj", tagsAdd |-> [k |-> "obj", node |-> [k |-> "obj", id |-> O1],
                                  userErrors |-> Arr(<<>>)]]),
   Data([k |-> "obj", tagsAdd |-> [k |-> "obj", node |-> null,
                                  userErrors |-> Arr(<<Str(<<"invalid id">>)>>)]])}

\* the stubs of a search answer
Stubs(n) == Arr([i \in 1..n |-> [k |-> "obj", id |-> Num(i)]])

SealSearchAnswers ==
  {NetErr, Http(FALSE, 503, Malformed), Http(FALSE, 401, Malformed), Http(TRUE, 200, Malformed),
   Http(TRUE, 200, Json([k |-> "obj", payload |-> EmptyObj]))}
    \cup {Http(TRUE, 200, Json(Stubs(n))) : n \in 0..MaxSubs}
    \cup {Http(TRUE, 200, Json([k |-> "obj", payload |-> Stubs(n)])) : n \in 0..MaxSubs}

\* subscription details: billing_min_cycles absent, null, zero or positive;
\* ids as numbers or strings, shared between records or not
DetailSamples ==
  {[k |-> "obj", id |-> Num(7)],
   [k |-> "obj", id |-> Num(7), billing_min_cycles |-> Num(3)],
   [k |-> "obj", id |-> Num(77), billing_min_cycles |-> Num(3)],
   [k |-> "obj", id |-> Num(77), billing_min_cycles |-> null],
   [k |-> "obj", id |-> Str(<<"7", "7">>), billing_min_cycles |-> Num(0)]}

SealDetailAnswers ==
  {NetErr, Http(FALSE, 404, Malformed), Http(TRUE, 200, Malformed), Http(TRUE, 200, Json(null))}
    \cup {Http(TRUE, 200, Json(d)) : d \in DetailSamples}
    \cup {Http(TRUE, 200, Json([k |-> "obj", success |-> TRUE, payload |-> d])) : d \in DetailSamples}

(***************************************************************************)
(* Full variant: the answers of the two admin lookups.                     *)
(***************************************************************************)
\* line 167 onwards: findOrderByName settles
FindByNameReturns ==
  /\ pc = "findOrderByName"
  /\ \E http \in AdminByNameAnswers :
       LET out == shopifyGraphQL(http)
           log == Settle(calls, Len(calls), out, http)
       IN IF out.k = "threw"
            THEN ctx' = ctx /\ ensured' = ensured /\ Catch500(out.msg, log)
            ELSE EnsureById(MergeFound(ctx, findOrderByName(out.v)), log)
  /\ UNCHANGED <<mode, env, req, subs, fetch, minimal, tags, tagResults, tagOutcome>>

\* line 176 onwards: getOrderById settles
GetByIdReturns ==
  /\ pc = "getOrderById"
  /\ \E http \in AdminByIdAnswers :
       LET out == shopifyGraphQL(http)
           log == Settle(calls, Len(calls), out, http)
       IN IF out.k = "threw"
            THEN ctx' = ctx /\ ensured' = ensured /\ Catch500(out.msg, log)
            ELSE AfterEnsure(MergeGot(ctx, getOrderById(out.v)), log)
  /\ UNCHANGED <<mode, env, req, subs, fetch, minimal, tags, tagResults, tagOutcome>>

(***************************************************************************)
(* Full variant: tag derivation and the two tag writes (lines 90-125).     *)
(***************************************************************************)
\* the body echoes the request's fields in place of the resolved context
SuccessBodyEchoRequest(min, tr) ==
  [ok |-> TRUE, shopDomain |-> req.shopDomain, orderId |-> req.orderId,
   orderName |-> req.orderName, customerId |-> Or(req.customerId, null),
   email |-> req.email, subscriptions |-> min, tagResults |-> tr]

SuccessBody(min, tr) ==
  [ok |-> TRUE, shopDomain |-> req.shopDomain, orderId |-> ensured.orderId,
   orderName |-> ensured.orderName, customerId |-> Or(ensured.customerId, null),
   email |-> ensured.email, subscriptions |-> min, tagResults |-> tr]

TagCall(gid, t) == Call("tagsAdd", "admin", TagsAddVariables(gid, t))

\* line 108: if (ensured.customerId)
CustomerWriteGuard == Truthy(ensured.customerId)

\* lines 108-125 once the order write has settled with result res: the customer
\* write is issued, or answers at once when there is no tag, or is left out
AfterOrderWrite(min, t, orderOutcome, res, log) ==
  LET tr == [k |-> "obj", order |-> res]
  IN IF ~CustomerWriteGuard
       THEN /\ tagResults' = tr
            /\ tagOutcome' = [order |-> orderOutcome, customer |-> NotCalled]
            /\ Respond(200, SuccessBody(min, tr), log)
     ELSE IF TagsAddSkips(t)
       THEN LET tr2 == [k |-> "obj", order |-> res, customer |-> Skipped]
            IN /\ tagResults' = tr2
               /\ tagOutcome' = [order |-> orderOutcome, customer |-> Return(Skipped)]
               /\ Respond(200, SuccessBody(min, tr2), log)
     ELSE /\ tagResults' = tr
          /\ tagOutcome' = [order |-> orderOutcome, customer |-> NotCalled]
          /\ pc' = "tagCustomer"
          /\ response' = response
          /\ calls' = Append(log, TagCall(ensured.customerId, t))

\* the two tag writes started together
DeriveAndTagParallel(details, log) ==
  IF \E i \in 1..Len(details) : details[i].k \in {"null", "undefined"}
    THEN /\ Catch500("Cannot read properties of null (reading 'id')", log)
         /\ UNCHANGED <<minimal, tags, tagResults, tagOutcome>>
    ELSE LET min == Minimal(details)
             t == deriveTags(min)
         IN /\ minimal' = min
            /\ tags' = t
            /\ IF TagsAddSkips(t)
                 THEN AfterOrderWrite(min, t, Return(Skipped), Skipped, log)
                 ELSE /\ tagResults' = EmptyObj
                      /\ tagOutcome' = [order |-> NotCalled, customer |-> NotCalled]
                      /\ pc' = "tagOrder"
                      /\ response' = response
                      /\ calls' = log \o (IF CustomerWriteGuard
                                            THEN <<TagCall(ensured.orderId, t),
                                                   TagCall(ensured.customerId, t)>>
                                            ELSE <<TagCall(ensured.orderId, t)>>)

\* lines 91-107 once Promise.all has resolved with details
DeriveAndTag(details, log) ==
  IF \E i \in 1..Len(details) : details[i].k \in {"null", "undefined"}
    THEN /\ Catch500("Cannot read properties of null (reading 'id')", log)
         /\ UNCHANGED <<minimal, tags, tagResults, tagOutcome>>
    ELSE LET min == Minimal(details)
             t == deriveTags(min)
         IN /\ minimal' = min
            /\ tags' = t
            /\ IF TagsAddSkips(t)
                 THEN AfterOrderWrite(min, t, Return(Skipped), Skipped, log)
                 ELSE /\ tagResults' = EmptyObj
                      /\ tagOutcome' = [order |-> NotCalled, customer |-> NotCalled]
                      /\ pc' = "tagOrder"
                      /\ response' = response
                      /\ calls' = Append(log, TagCall(ensured.orderId, t))

\* lines 83-88: sealSearchByEmail settles; the detail fetches are all issued
SearchReturns ==
  /\ pc = "sealSearch"
  /\ \E http \in SealSearchAnswers :
       LET out == sealSearchByEmail(http)
           log == Settle(calls, Len(calls), out, http)
       IN IF out.k = "threw"
            THEN /\ Catch500(out.msg, log)
                 /\ UNCHANGED <<subs, fetch, minimal, tags, tagResults, tagOutcome>>
          ELSE IF out.v.k # "arr"
            THEN /\ subs' = out.v
                 /\ Catch500("subs.map is not a function", log)
                 /\ UNCHANGED <<fetch, minimal, tags, tagResults, tagOutcome>>
          ELSE IF Len(out.v.v) = 0
            THEN /\ subs' = out.v
                 /\ fetch' = <<>>
                 /\ DeriveAndTag(<<>>, log)
          ELSE /\ subs' = out.v
               /\ fetch' = [i \in 1..Len(out.v.v) |->
                              [state |-> "pending", value |-> undefined, call |-> Len(log) + i]]
               /\ calls' = log \o [i \in 1..Len(out.v.v) |->
                                     Call("sealGetById", "seal", [id |-> Get(out.v.v[i], "id")])]
               /\ pc' = "details"
               /\ response' = response
               /\ UNCHANGED <<minimal, tags, tagResults, tagOutcome>>
  /\ UNCHANGED <<mode, env, req, ctx, ensured>>

\* Promise.all resolves once every slot is fulfilled
AllFulfilled(f) == \A i \in 1..Len(f) : f[i].state = "ok"

\* Promise.allSettled in place of Promise.all: a rejected fetch is left out
DetailReturnsAllSettled(i) ==
  /\ i \in 1..Len(fetch)
  /\ fetch[i].state = "pending"
  /\ \E http \in SealDetailAnswers :
       LET out == sealGetById(http)
           log == Settle(calls, fetch[i].call, out, http)
           f == [fetch EXCEPT ![i].state = IF out.k = "threw" THEN "failed" ELSE "ok",
                              ![i].value = IF out.k = "threw" THEN undefined ELSE out.v]
           kept == SelectSeq(f, LAMBDA x : x.state = "ok")
       IN /\ fetch' = f
          /\ IF pc = "details" /\ \A j \in 1..Len(f) : f[j].state # "pending"
               THEN DeriveAndTag([j \in 1..Len(kept) |-> kept[j].value], log)
               ELSE /\ calls' = log
                    /\ UNCHANGED <<pc, response, minimal, tags, tagResults, tagOutcome>>
  /\ UNCHANGED <<mode, env, req, ctx, ensured, subs>>

\* lines 86-88: one detail fetch settles.  Promise.all rejects with the first
\* rejection and resolves with the values in the order of subs; a fetch that
\* settles after the handler has responded changes nothing else.
DetailReturns(i) ==
  /\ i \in 1..Len(fetch)
  /\ fetch[i].state = "pending"
  /\ \E http \in SealDetailAnswers :
       LET out == sealGetById(http)
           log == Settle(calls, fetch[i].call, out, http)
           f == [fetch EXCEPT ![i].state = IF out.k = "threw" THEN "failed" ELSE "ok",
                              ![i].value = IF out.k = "threw" THEN undefined ELSE out.v]
       IN /\ fetch' = f
          /\ IF pc # "details"
               THEN /\ calls' = log
                    /\ UNCHANGED <<pc, response, minimal, tags, tagResults, tagOutcome>>
             ELSE IF out.k = "threw"
               THEN /\ Catch500(out.msg, log)
                    /\ UNCHANGED <<minimal, tags, tagResults, tagOutcome>>
             ELSE IF AllFulfilled(f)
               THEN DeriveAndTag([j \in 1..Len(f) |-> f[j].value], log)
             ELSE /\ calls' = log
                  /\ UNCHANGED <<pc, response, minimal, tags, tagResults, tagOutcome>>
  /\ UNCHANGED <<mode, env, req, ctx, ensured, subs>>

\* the order write without its try/catch: its exception reaches the top-level catch
OrderTagReturnsUncaught ==
  /\ pc = "tagOrder"
  /\ \E http \in AdminTagAnswers :
       LET out == shopifyGraphQL(http)
           log == Settle(calls, Len(calls), out, http)
       IN IF out.k = "threw"
            THEN /\ tagResults' = tagResults
                 /\ tagOutcome' = [tagOutcome EXCEPT !.order = Throw(out.msg)]
                 /\ Catch500(out.msg, log)
            ELSE AfterOrderWrite(minimal, tags, Return(tagsAddResult(out.v)),
                                 tagsAddResult(out.v), log)
  /\ UNCHANGED <<mode, env, req, ctx, ensured, subs, fetch, minimal, tags>>

\* lines 103-107: the order write settles
OrderTagReturns ==
  /\ pc = "tagOrder"
  /\ \E http \in AdminTagAnswers :
       LET out == shopifyGraphQL(http)
           log == Settle(calls, Len(calls), out, http)
       IN IF out.k = "threw"
            THEN AfterOrderWrite(minimal, tags, Throw(out.msg),
                                 ErrorResult(out.msg, "order tagging failed"), log)
            ELSE AfterOrderWrite(minimal, tags, Return(tagsAddResult(out.v)),
                                 tagsAddResult(out.v), log)
  /\ UNCHANGED <<mode, env, req, ctx, ensured, subs, fetch, minimal, tags>>

\* lines 109-125: the customer write settles and the handler responds
CustomerTagReturns ==
  /\ pc = "tagCustomer"
  /\ \E http \in AdminTagAnswers :
       LET out == shopifyGraphQL(http)
           log == Settle(calls, Len(calls), out, http)
           res == IF out.k = "threw" THEN ErrorResult(out.msg, "customer tagging failed")
                                     ELSE tagsAddResult(out.v)
           tr == [k |-> "obj", order |-> tagResults.order, customer |-> res]
       IN /\ tagResults' = tr
          /\ tagOutcome' = [tagOutcome EXCEPT !.customer =
                              IF out.k = "threw" THEN Throw(out.msg) ELSE Return(res)]
          /\ Respond(200, SuccessBody(minimal, tr), log)
  /\ UNCHANGED <<mode, env, req, ctx, ensured, subs, fetch, minimal, tags>>

(***************************************************************************)
(* Seal-only variant (lines 311-354).                                      *)
(***************************************************************************)
\* line 322: the secret check of the seal-only variant
AuthFailsSealOnly(region) == Truthy(region.flowSecret) /\ ~tscEq(req.secretHdr, region.flowSecret)

\* timedFetch aborts the fetch when the timer fires
TimedOut == [k |-> "timeout"]

\* lines 313-333: from the arrival of the request to the await of timedFetch
ReceiveSealOnly ==
  /\ pc = "start"
  /\ mode = "sealOnly"
  /\ LET region == byShopGet(req.shopDomain)
     IN IF ~Truthy(req.shopDomain) \/ ~isValidShopSealOnly(req.shopDomain)
          THEN errRes(400, "Missing/invalid shopDomain", req.shopDomain, calls)
        ELSE IF ~Truthy(region)
          THEN errRes(400, "Shop not recognized", undefined, calls)
        ELSE IF AuthFailsSealOnly(region)
          THEN errRes(401, "Bad X-Flow-Secret", undefined, calls)
        ELSE IF ~Truthy(req.email)
          THEN errRes(400, "Missing email", undefined, calls)
        ELSE IF ~Truthy(region.sealToken)
          THEN errRes(500, "Seal token not configured for shop", Str(<<region.code>>), calls)
        ELSE /\ pc' = "sealOnlySearch"
             /\ response' = response
             /\ calls' = Append(calls, Call("timedFetch", "seal", [email |-> req.email]))
  /\ UNCHANGED <<mode, env, req, ctx, ensured, subs, fetch, minimal, tags, tagResults, tagOutcome>>

\* items.length
Length(items) == IF items.k = "arr" THEN Num(Len(items.v)) ELSE undefined

\* lines 334-353: timedFetch settles and the handler responds
SealOnlySearchReturns ==
  /\ pc = "sealOnlySearch"
  /\ \E http \in SealSearchAnswers \cup {TimedOut} :
       IF http.k \in {"neterr", "timeout"}
         THEN /\ subs' = subs
              /\ errRes(500, "Server error", Str(<<"stack">>),
                        Settle(calls, Len(calls), Throw(http.k), http))
       ELSE LET log == Settle(calls, Len(calls), Return(http), http)
            IN IF ~http.ok
                 THEN /\ subs' = subs
                      /\ errRes(http.status, "Seal search error", Str(<<"upstream body">>), log)
                 ELSE LET parsed == Coalesce(safeJsonSealOnly(http.text), EmptyObj)
                          items == IF parsed.k = "arr" THEN parsed
                                   ELSE Coalesce(Get(parsed, "payload"), Arr(<<>>))
                      IN /\ subs' = items
                         /\ Respond(200,
                                    [ok |-> TRUE, shopDomain |-> req.shopDomain,
                                     orderId |-> req.orderId, email |-> req.email,
                                     count |-> Length(items), subscriptions |-> items],
                                    log)
  /\ UNCHANGED <<mode, env, req, ctx, ensured, fetch, minimal, tags, tagResults, tagOutcome>>

(***************************************************************************)
(* Initial states: the environment and one request.                        *)
(***************************************************************************)
\* the strings of length at most n over the characters of S
BoundedSeq(S, n) == UNION {[1..m -> S] : m \in 0..n}

TokenSeal == Str(<<"seal-token">>)
TokenAdmin == Str(<<"shpat-token">>)
ShopUK == Str(<<"a">> \o MyshopifySuffix)
ShopEU == Str(<<"a", "-">> \o MyshopifySuffix)
SecretUK == Str(<<"a", "U+00E9">>)

\* UK as given; EU a second shop without a secret; US not configured
Env(shopUK, secretUK, sealUK, adminUK, dbg) ==
  [shop |-> [UK |-> shopUK, EU |-> ShopEU, US |-> undefined],
   sealToken |-> [UK |-> sealUK, EU |-> TokenSeal, US |-> undefined],
   flowSecret |-> [UK |-> secretUK, EU |-> undefined, US |-> undefined],
   shopifyToken |-> [UK |-> adminUK, EU |-> TokenAdmin, US |-> undefined],
   DEBUG_ERRORS |-> dbg]

Req(shopDomain, secretHdr, orderId, orderName, customerId, email) ==
  [shopDomain |-> shopDomain, secretHdr |-> secretHdr, orderId |-> orderId,
   orderName |-> orderName, customerId |-> customerId, email |-> email]

Fresh ==
  /\ pc = "start"
  /\ ctx = Ctx(undefined, undefined, undefined, undefined)
  /\ ensured = undefined
  /\ subs = undefined
  /\ fetch = <<>>
  /\ minimal = <<>>
  /\ tags = <<>>
  /\ tagResults = EmptyObj
  /\ tagOutcome = [order |-> NotCalled, customer |-> NotCalled]
  /\ response = NoResponse
  /\ calls = <<>>

\* requests of a configured shop with its secret: every combination of
\* present and absent body fields
InitFlow ==
  /\ mode \in {"full", "sealOnly"}
  /\ env = Env(ShopUK, SecretUK, TokenSeal, TokenAdmin, undefined)
  /\ req \in {Req(ShopUK, SecretUK, o, n, c, e) :
                o \in {undefined, O1}, n \in {undefined, N1, N2},
                c \in {undefined, C9}, e \in {undefined, Str(<<>>), E1}}

SecretAlphabet == {"a", "U+00E9"}
UndefinedText == Str(<<"u", "n", "d", "e", "f", "i", "n", "e", "d">>)
SecretSamples == {Str(s) : s \in BoundedSeq(SecretAlphabet, MaxSecretLen)} \cup {UndefinedText}

\* secrets and headers: every pair of short strings, a missing header, no secret
InitAuth ==
  /\ mode \in {"full", "sealOnly"}
  /\ \E secret \in SecretSamples \cup {undefined} :
       env = Env(ShopUK, secret, TokenSeal, TokenAdmin, undefined)
  /\ req \in {Req(ShopUK, h, undefined, undefined, undefined, E1) :
                h \in SecretSamples \cup {undefined}}

LabelAlphabet == {"a", "-", "A", "."}
SuffixSamples ==
  {MyshopifySuffix, <<>>, SubSeq(MyshopifySuffix, 1, 13), MyshopifySuffix \o <<"m">>,
   <<"-">> \o Tail(MyshopifySuffix)}
ShopSamples ==
  {Str(l \o x) : l \in BoundedSeq(LabelAlphabet, MaxLabelLen), x \in SuffixSamples}
    \cup {undefined}

\* shop domains: well-formed or not, registered or not
InitShop ==
  /\ mode \in {"full", "sealOnly"}
  /\ req \in {Req(d, SecretUK, O1, N2, C9, E1) : d \in ShopSamples}
  /\ \E shopUK \in {ShopUK, req.shopDomain} :
       env = Env(shopUK, SecretUK, TokenSeal, TokenAdmin, undefined)

\* a registered shop whose domain is not well-formed
ShopUpper == Str(<<"A">> \o MyshopifySuffix)

\* pre-flight: credentials present or not, secret right or wrong, debug on or
\* off; requests of the second shop, whose region declares no secret; an order
\* name sent as a number; a malformed domain with a wrong secret
InitPreflight ==
  /\ mode \in {"full", "sealOnly"}
  /\ \/ /\ \E secret \in {undefined, SecretUK}, seal \in {undefined, TokenSeal},
              admin \in {undefined, TokenAdmin},
              dbg \in {undefined, Str(<<"t", "r", "u", "e">>)} :
             env = Env(ShopUK, secret, seal, admin, dbg)
        /\ req \in {Req(d, h, O1, N2, C9, E1) :
                      d \in {ShopUK, undefined, Str(<<"b">> \o MyshopifySuffix)},
                      h \in {undefined, SecretUK, Str(<<"a">>)}}
     \/ /\ env = Env(ShopUK, SecretUK, TokenSeal, TokenAdmin, undefined)
        /\ req \in {Req(ShopEU, h, O1, N2, undefined, E1) : h \in {undefined, SecretUK}}
     \/ /\ \E dbg \in {undefined, Str(<<"t", "r", "u", "e">>), Str(<<"T", "R", "U", "E">>)} :
             env = Env(ShopUK, SecretUK, TokenSeal, TokenAdmin, dbg)
        /\ req = Req(ShopUK, SecretUK, undefined, Num(1001), C9, E1)
     \/ /\ \E seal \in {undefined, TokenSeal} :
             env = Env(ShopUpper, SecretUK, seal, TokenAdmin, undefined)
        /\ req = Req(ShopUpper, Str(<<"a">>), O1, N2, C9, E1)

Init == Fresh /\ (InitFlow \/ InitAuth \/ InitShop \/ InitPreflight)

Next ==
  \/ ReceiveFull
  \/ FindByNameReturns
  \/ GetByIdReturns
  \/ SearchReturns
  \/ \E i \in 1..MaxSubs : DetailReturns(i)
  \/ OrderTagReturns
  \/ CustomerTagReturns
  \/ ReceiveSealOnly
  \/ SealOnlySearchReturns

Spec == Init /\ [][Next]_vars

\* What the code's scheduling guarantees: the handler runs once a request has
\* arrived, and timedFetch settles (its timer aborts the fetch after
\* FETCH_TIMEOUT_MS when no answer came first).  A plain fetch settles only
\* when the upstream answers, which nothing in the code brings about.
FairSpec ==
  /\ Spec
  /\ WF_vars(ReceiveFull)
  /\ WF_vars(ReceiveSealOnly)
  /\ WF_vars(SealOnlySearchReturns)

(***************************************************************************)
(* Properties.                                                             *)
(***************************************************************************)
Range(q) == {q[i] : i \in 1..Len(q)}

\* the remote calls issued so far with operation op
CallsOf(op) == {i \in 1..Len(calls) : calls[i].op = op}

\* the error message of the response, "" when it carries none
ErrorOf(r) == IF "body" \in DOMAIN r /\ "error" \in DOMAIN r.body THEN r.body.error ELSE ""

\* <label>.myshopify.com with a non-empty label of lowercase letters, digits and hyphens
WellFormedShop(d) ==
  /\ d.k = "str"
  /\ \E n \in 1..Len(d.v) :
       /\ \A i \in 1..n : d.v[i] \in LabelClass
       /\ SubSeq(d.v, n + 1, Len(d.v)) = MyshopifySuffix

\* the request names a well-formed, registered shop whose region has a non-empty secret
SecretConfigured ==
  /\ WellFormedShop(req.shopDomain)
  /\ Truthy(byShopGet(req.shopDomain))
  /\ byShopGet(req.shopDomain).flowSecret.k = "str"
  /\ byShopGet(req.shopDomain).flowSecret.v # <<>>

\* a tagsAdd invocation that threw is recorded as { error }, one that returned
\* is recorded as the value it returned
Recorded(outcome, result) ==
  IF outcome.k = "threw"
    THEN DOMAIN result = {"k", "error"} /\ result.error = outcome.msg
    ELSE outcome.k = "returned" /\ result = outcome.v

\* C1: in the full variant, once tag derivation has been reached, the order
\* write and the customer write are independent in failure: whatever each of
\* them did (returned, skipped, threw), an exception is recorded as { error }
\* for its own target only, the customer write is attempted exactly when a
\* customer id is known, each recorded result is what the write returned, and
\* the response has status 200.
C1_TagWritesIndependent ==
  (mode = "full" /\ (pc \in {"tagOrder", "tagCustomer"} \/ tagOutcome.order # NotCalled)) =>
    /\ pc = "tagOrder" => tagOutcome.order = NotCalled /\ response = NoResponse
    /\ pc = "tagCustomer" =>
         /\ Truthy(ensured.customerId)
         /\ Recorded(tagOutcome.order, tagResults.order)
         /\ response = NoResponse
    /\ pc = "done" =>
         /\ response.status = 200
         /\ response.body.tagResults = tagResults
         /\ Recorded(tagOutcome.order, tagResults.order)
         /\ IF Truthy(ensured.customerId)
              THEN Recorded(tagOutcome.customer, tagResults.customer)
              ELSE tagOutcome.customer = NotCalled /\ "customer" \notin DOMAIN tagResults

\* the order write threw, the customer write was still made and returned
C1_Witness ==
  /\ mode = "full"
  /\ pc = "done"
  /\ tagOutcome.order.k = "threw"
  /\ tagOutcome.customer.k = "returned"
  /\ "error" \in DOMAIN tagResults.order
  /\ "error" \notin DOMAIN tagResults.customer
  /\ response.status = 200

\* C2 as stated: for a region with a non-empty secret and a request carrying
\* the header, the response is 401 if and only if the header differs from the
\* secret, in both variants.
C2_Original ==
  (SecretConfigured /\ req.secretHdr.k = "str" /\ pc = "done") =>
    (response.status = 401 <=> req.secretHdr.v # byShopGet(req.shopDomain).flowSecret.v)

\* C2 as amended: under the same precondition the secret check rejects the
\* request (401 Bad X-Flow-Secret, no remote call) if and only if the header
\* differs from the secret; in the full variant the status is 401 if and only
\* if they differ.  In the seal-only variant a request with the right secret
\* can still end with 401: the status of the subscription search is forwarded.
C2_SecretCheckIffEqual ==
  (SecretConfigured /\ req.secretHdr.k = "str" /\ pc # "start") =>
    LET differs == req.secretHdr.v # byShopGet(req.shopDomain).flowSecret.v
        rejected == pc = "done" /\ response.status = 401
                      /\ ErrorOf(response) = "Bad X-Flow-Secret" /\ calls = <<>>
    IN /\ rejected <=> differs
       /\ (mode = "full" /\ pc = "done") => (response.status = 401 <=> differs)

\* a header of the same encoded length as the secret, with other bytes, is rejected
C2_Witness ==
  /\ SecretConfigured
  /\ mode = "full"
  /\ req.secretHdr.k = "str"
  /\ req.secretHdr.v # byShopGet(req.shopDomain).flowSecret.v
  /\ Len(Utf8(req.secretHdr.v)) = Len(Utf8(byShopGet(req.shopDomain).flowSecret.v))
  /\ pc = "done"
  /\ response.status = 401

\* C3: for a region with a non-empty secret, a request without the
\* X-Flow-Secret header ends with 401, whatever the secret, in both variants.
C3_MissingHeaderRejected ==
  (SecretConfigured /\ req.secretHdr = undefined /\ pc = "done") => response.status = 401

\* C4: a request whose shopDomain is absent or not of the form
\* <label>.myshopify.com ends with 400 and never makes a remote call, in both
\* variants.
C4_InvalidShopRejected ==
  ~WellFormedShop(req.shopDomain) =>
    /\ calls = <<>>
    /\ pc \in {"start", "done"}
    /\ pc = "done" => response.status = 400

\* a malformed shop domain that the registry holds is rejected all the same
C4_Witness ==
  /\ ~WellFormedShop(req.shopDomain)
  /\ Truthy(req.shopDomain)
  /\ Truthy(byShopGet(req.shopDomain))
  /\ pc = "done"
  /\ response.status = 400

\* the messages of the input-validation (400) and authentication (401) errors
ClientErrors ==
  {"Missing or invalid shopDomain", "Missing/invalid shopDomain", "Shop not recognized",
   "Bad X-Flow-Secret", "Missing email", "orderId (gid) required or resolvable",
   "email required (send via Flow or resolvable from order)"}

\* the 400s of the required-field checks that follow context resolution
UnresolvedErrors ==
  {"orderId (gid) required or resolvable",
   "email required (send via Flow or resolvable from order)"}

\* C5 as stated: a request that ends in an input-validation error (400) or an
\* authentication error (401) has made no remote call.
C5_Original ==
  (pc = "done" /\ response.status \in {400, 401} /\ ErrorOf(response) \in ClientErrors) =>
    calls = <<>>

\* C5 as amended: a request that ends in the 401 of the secret check or in the
\* 400 of a malformed or unrecognized shop or (seal-only) of a missing e-mail
\* has made no remote call; a request of the full variant that ends in the 400
\* of a missing orderId or e-mail after context resolution has made no call
\* but the admin order lookups of context resolution, all of them settled.
C5_EarlyErrorsBeforeCalls ==
  (pc = "done" /\ response.status \in {400, 401} /\ ErrorOf(response) \in ClientErrors) =>
    /\ ErrorOf(response) \notin UnresolvedErrors => calls = <<>>
    /\ \A i \in 1..Len(calls) :
         /\ calls[i].op \in {"findOrderByName", "getOrderById"}
         /\ calls[i].state # "inflight"

\* 400 for an unresolved e-mail after an admin lookup was made
C5_Witness ==
  /\ pc = "done"
  /\ response.status = 400
  /\ ErrorOf(response) \in UnresolvedErrors
  /\ Len(calls) > 0

\* C6: if orderId or e-mail is still missing when context resolution has
\* returned, the request ends with 400 and no subscription search, detail
\* fetch or tag write is ever issued; a request with neither orderId nor
\* orderName but with an e-mail, once past the pre-flight checks, ends with 400
\* without any remote call.
C6_MissingContextIsTerminal ==
  /\ (ensured # undefined /\ (~Truthy(ensured.orderId) \/ ~Truthy(ensured.email))) =>
       /\ pc = "done"
       /\ response.status = 400
       /\ CallsOf("sealSearchByEmail") \cup CallsOf("sealGetById") \cup CallsOf("tagsAdd") = {}
  /\ (mode = "full" /\ pc # "start" /\ ~Truthy(req.orderId) /\ ~Truthy(req.orderName)
        /\ Truthy(req.email)
        /\ ErrorOf(response) \notin {"Missing or invalid shopDomain", "Shop not recognized",
                                     "Bad X-Flow-Secret", "Seal token not configured for shop",
                                     "Shopify token not configured for shop"}) =>
       /\ pc = "done"
       /\ response.status = 400
       /\ calls = <<>>

\* orderId resolved, e-mail still missing after an admin lookup
C6_Witness ==
  /\ ensured # undefined
  /\ Truthy(ensured.orderId)
  /\ ~Truthy(ensured.email)
  /\ Len(calls) > 0
  /\ pc = "done"
  /\ response.status = 400

\* C7: whatever the number of subscriptions and the order in which the detail
\* fetches settle, if a detail fetch fails the request ends with 500, without
\* subscription data and without any tag write; a tag write is issued only once
\* every detail fetch has succeeded.
C7_FanOutAllOrNothing ==
  /\ (\E i \in 1..Len(fetch) : fetch[i].state = "failed") =>
       /\ pc = "done"
       /\ response.status = 500
       /\ "subscriptions" \notin DOMAIN response.body
       /\ CallsOf("tagsAdd") = {}
  /\ CallsOf("tagsAdd") # {} => \A i \in 1..Len(fetch) : fetch[i].state = "ok"

\* one detail fetch succeeded, another failed
C7_Witness ==
  /\ Len(fetch) >= 2
  /\ fetch[1].state = "ok"
  /\ fetch[2].state = "failed"
  /\ response.status = 500

\* the details Promise.all resolved with
Details == [i \in 1..Len(fetch) |-> fetch[i].value]

\* the tags have been derived
TagsDerived == mode = "full" /\ (pc \in {"tagOrder", "tagCustomer"} \/ response.status = 200)

\* billing_min_cycles is present in a detail: neither absent nor null
CyclesPresent(d) ==
  "billing_min_cycles" \in DOMAIN d /\ d.billing_min_cycles.k \notin {"null", "undefined"}

\* the tag set the rule prescribes for a list of details
ExpectedTags(details) ==
  {<<"seal_sub_id_">> \o String(Get(d, "id")) : d \in Range(details)}
    \cup {<<"seal_min_cycles_">> \o String(d.billing_min_cycles) :
            d \in {x \in Range(details) : CyclesPresent(x)}}

\* C8: the set of tags derived, and sent with every tag write, is exactly
\* seal_sub_id_<id> for every subscription together with
\* seal_min_cycles_<n> for every subscription whose billing_min_cycles is
\* present; nothing else.
C8_TagsExact ==
  TagsDerived =>
    /\ Range(tags) = ExpectedTags(Details)
    /\ \A i \in CallsOf("tagsAdd") : Range(calls[i].arg.tags) = ExpectedTags(Details)

\* one subscription without billing_min_cycles beside one with it (zero included)
C8_Witness ==
  /\ TagsDerived
  /\ CallsOf("tagsAdd") # {}
  /\ \E d \in Range(Details) : ~CyclesPresent(d)
  /\ \E d \in Range(Details) : CyclesPresent(d) /\ d.billing_min_cycles = Num(0)

\* C9: the tag list of every tag-addition mutation holds each derived tag
\* exactly once, also when subscriptions share a billing_min_cycles value or an id.
C9_TagsSentOnce ==
  \A c \in CallsOf("tagsAdd") :
    \A t \in Range(tags) :
      Cardinality({j \in 1..Len(calls[c].arg.tags) : calls[c].arg.tags[j] = t}) = 1

\* the derived list holds a tag twice and a mutation was sent
C9_Witness ==
  /\ CallsOf("tagsAdd") # {}
  /\ \E i, j \in 1..Len(tags) : i # j /\ tags[i] = tags[j]

\* the permutations of 1..n
Perms(n) == {p \in [1..n -> 1..n] : \A i, j \in 1..n : p[i] = p[j] => i = j}

\* C10: the tag set does not depend on the order of the subscriptions: every
\* permutation of the details yields the set the handler derived.
C10_OrderIndependent ==
  TagsDerived =>
    \A p \in Perms(Len(Details)) :
      Range(deriveTags(Minimal([i \in 1..Len(Details) |-> Details[p[i]]]))) = Range(tags)

\* two different details, derived after the second fetch settled first
C10_Witness ==
  /\ TagsDerived
  /\ Len(fetch) >= 2
  /\ String(Get(Details[1], "id")) # String(Get(Details[2], "id"))
  /\ Range(tags) # {}

\* C11: in the full variant a tag writer given an empty tag list makes no
\* remote call and returns the skipped result; a request whose search found
\* zero subscriptions derives no tag, issues no tagsAdd mutation for the order
\* or the customer, records both writes as skipped and ends with status 200.
C11_EmptyTagsSkipped ==
  /\ (mode = "full" /\ TagsDerived /\ tags = <<>>) =>
        /\ CallsOf("tagsAdd") = {}
        /\ pc = "done" /\ response.status = 200
        /\ tagResults.order = [k |-> "obj", skipped |-> "no tags to add"]
        /\ Truthy(ensured.customerId) =>
              tagResults.customer = [k |-> "obj", skipped |-> "no tags to add"]
  /\ (mode = "full" /\ subs = Arr(<<>>)) =>
        /\ CallsOf("tagsAdd") = {} /\ CallsOf("sealGetById") = {}
        /\ pc = "done" /\ response.status = 200 /\ tags = <<>>
        /\ response.body.tagResults = tagResults

\* the search answered an empty list for a request with a customer id
C11_Witness ==
  /\ mode = "full" /\ pc = "done" /\ subs = Arr(<<>>)
  /\ calls[Len(calls)].op = "sealSearchByEmail" /\ calls[Len(calls)].answer = "json"
  /\ Truthy(ensured.customerId)
  /\ response.status = 200
  /\ response.body.tagResults.customer = [k |-> "obj", skipped |-> "no tags to add"]

\* the request carries orderId, customerId, email and orderName, all truthy
RequestComplete ==
  Truthy(req.orderId) /\ Truthy(req.customerId) /\ Truthy(req.email) /\ Truthy(req.orderName)

\* C12: in the full variant, when the request carries orderId, customerId,
\* email and orderName, ensureOrderContext issues no admin-API call (neither
\* findOrderByName nor getOrderById) and returns exactly those four values.
C12_CompleteContextUntouched ==
  (mode = "full" /\ RequestComplete) =>
    /\ CallsOf("findOrderByName") = {} /\ CallsOf("getOrderById") = {}
    /\ \A i \in 1..Len(calls) : calls[i].api = "admin" => calls[i].op = "tagsAdd"
    /\ ensured.k = "obj" =>
         /\ ensured.orderId = req.orderId
         /\ ensured.customerId = req.customerId
         /\ ensured.email = req.email
         /\ ensured.orderName = req.orderName

\* a complete request has passed ensureOrderContext and its search is in flight
C12_Witness ==
  /\ mode = "full" /\ RequestComplete
  /\ ensured.k = "obj" /\ ensured.orderName = req.orderName
  /\ pc = "sealSearch"
  /\ Len(calls) = 1 /\ calls[1].op = "sealSearchByEmail"

\* the by-name lookup has returned and no by-id answer has been merged: ctx
\* is the context as the lookup step left it
ByNameMerged ==
  /\ mode = "full"
  /\ \E i \in CallsOf("findOrderByName") : calls[i].state = "returned"
  /\ \A j \in CallsOf("getOrderById") : calls[j].state # "returned"

\* C13: in the by-name lookup step (orderId absent, orderName present) each of
\* customerId, email and orderName that the request carried with a truthy
\* value keeps that value; the lookup value is adopted only for a field that
\* was falsy or absent.
C13_PresentFieldsKept ==
  ByNameMerged =>
    \A f \in {"customerId", "email", "orderName"} : Truthy(req[f]) => ctx[f] = req[f]

\* call i of the context resolution, the search or the detail fetch was
\* answered with a status outside 200-299 or with a body that is not JSON
UpstreamFailed(i) ==
  /\ calls[i].op \in {"findOrderByName", "getOrderById", "sealSearchByEmail",
                      "sealGetById", "timedFetch"}
  /\ calls[i].answer \in {"non2xx", "malformed"}

\* C14: once the admin API or the subscription API has answered a context
\* lookup, the search or a detail fetch with a non-2xx status or an
\* unparseable body, no tag write is ever issued and the request does not end
\* with 200: it ends with 500, or in the seal-only variant with the upstream
\* status of a non-2xx search.
C14_UpstreamErrorNever200 ==
  (\E i \in 1..Len(calls) : UpstreamFailed(i)) =>
    /\ CallsOf("tagsAdd") = {}
    /\ pc = "done" =>
         /\ response.status \notin 200..299
         /\ \/ response.status = 500
            \/ mode = "sealOnly" /\ calls[Len(calls)].answer = "non2xx"

\* C15: every outbound call is bounded by a timeout, so every request
\* eventually reaches a response, even when an upstream never answers.
C15_EventuallyResponds == <>(pc = "done")

\* C16: every 200 response of the full variant carries the shop domain of the
\* request, the resolved orderId (non-empty), the resolved order name, the
\* resolved customerId or null, the resolved email (non-empty, the one the
\* search was made with), the subscription summaries and an order write
\* result; it carries a customer write result exactly when a customer id was
\* resolved, and without one no tagsAdd mutation names a customer.
C16_SuccessBodyComplete ==
  (mode = "full" /\ pc = "done" /\ response.status = 200) =>
    LET b == response.body
    IN /\ b.ok
       /\ b.shopDomain = req.shopDomain
       /\ Truthy(b.orderId) /\ b.orderId = ensured.orderId
       /\ b.orderName = ensured.orderName
       /\ b.customerId = (IF Truthy(ensured.customerId) THEN ensured.customerId ELSE null)
       /\ Truthy(b.email) /\ b.email = ensured.email
       /\ \A i \in CallsOf("sealSearchByEmail") : calls[i].arg.email = b.email
       /\ b.subscriptions = minimal /\ Len(minimal) = Len(subs.v)
       /\ "order" \in DOMAIN b.tagResults /\ b.tagResults.order.k = "obj"
       /\ ("customer" \in DOMAIN b.tagResults) <=> Truthy(ensured.customerId)
       /\ ~Truthy(ensured.customerId) =>
            /\ Cardinality(CallsOf("tagsAdd")) <= 1
            /\ \A i \in CallsOf("tagsAdd") : calls[i].arg.id = ensured.orderId

\* a request without orderId and customerId whose order was found by name and
\* has no customer: the order is tagged, no customer write, status 200
C16_Witness ==
  /\ mode = "full" /\ pc = "done" /\ response.status = 200
  /\ ~Truthy(req.orderId) /\ Truthy(response.body.orderId)
  /\ response.body.customerId = null
  /\ Cardinality(CallsOf("tagsAdd")) = 1
  /\ "customer" \notin DOMAIN response.body.tagResults

\* DEBUG_ERRORS is set to true, in whatever case
DebugOn ==
  env.DEBUG_ERRORS.k = "str" /\ LowerCase(env.DEBUG_ERRORS.v) = <<"t", "r", "u", "e">>

\* the request passes shop validation, the secret check and the credential checks
PassesPreflight ==
  /\ WellFormedShop(req.shopDomain)
  /\ Truthy(byShopGet(req.shopDomain))
  /\ LET region == byShopGet(req.shopDomain)
     IN /\ ~Truthy(region.flowSecret) \/ req.secretHdr = region.flowSecret
        /\ Truthy(region.sealToken)
        /\ mode = "full" => Truthy(region.shopifyToken)

\* an exception was raised outside the two tag writes: a lookup, the search
\* or a detail fetch threw, the order name is not a string where startsWith
\* is called on it, the search payload is not a list, or a detail is null
ExceptionRaised ==
  \/ \E i \in 1..Len(calls) : calls[i].op # "tagsAdd" /\ calls[i].state = "threw"
  \/ /\ mode = "full" /\ PassesPreflight
     /\ ~Truthy(req.orderId) /\ Truthy(req.orderName) /\ req.orderName.k # "str"
  \/ mode = "full" /\ subs.k = "obj"
  \/ /\ mode = "full" /\ Len(fetch) > 0
     /\ \A i \in 1..Len(fetch) : fetch[i].state = "ok"
     /\ \E i \in 1..Len(fetch) : fetch[i].value.k = "null"

\* C17: in both variants an exception raised outside the two guarded tag
\* writes ends the request with status 500 and the error "Server error", no
\* tag write having been issued; the body of an error response holds details
\* or a stack only if the debug flag is enabled, and is { error } alone otherwise.
C17_ExceptionsGeneric500 ==
  /\ (pc = "done" /\ ExceptionRaised) =>
        /\ response.status = 500
        /\ ErrorOf(response) = "Server error"
        /\ CallsOf("tagsAdd") = {}
  /\ (pc = "done" /\ response.status # 200) =>
        /\ "error" \in DOMAIN response.body
        /\ ~DebugOn => DOMAIN response.body = {"error"}

\* debug off, full variant: a detail fetch threw and the body is the generic error
C17_Witness ==
  /\ mode = "full" /\ pc = "done" /\ ~DebugOn
  /\ \E i \in CallsOf("sealGetById") : calls[i].state = "threw"
  /\ response = [status |-> 500, body |-> [error |-> "Server error"]]

\* the shop domain is malformed or names no registered shop
ShopRejected ==
  IF WellFormedShop(req.shopDomain) THEN ~Truthy(byShopGet(req.shopDomain)) ELSE TRUE

\* the shop's region declares a secret and the header carries another value
WrongSecret ==
  /\ SecretConfigured
  /\ req.secretHdr.k = "str"
  /\ req.secretHdr # byShopGet(req.shopDomain).flowSecret

\* the Seal token or the admin token of the shop's region is not configured
CredentialMissing ==
  /\ ~ShopRejected
  /\ \/ ~Truthy(byShopGet(req.shopDomain).sealToken)
     \/ ~Truthy(byShopGet(req.shopDomain).shopifyToken)

\* C18: the full handler validates the shop, then authenticates, then checks
\* the credentials: a malformed or unregistered shop ends with 400 whatever
\* the secret; a recognised shop with a wrong secret ends with 401 whether or
\* not a credential is missing; a right secret with a missing credential ends
\* with 500; in all three cases no remote call is made.
C18_PreflightOrder ==
  (mode = "full" /\ pc # "start") =>
    IF ShopRejected
      THEN pc = "done" /\ response.status = 400 /\ calls = <<>>
    ELSE LET region == byShopGet(req.shopDomain)
             declared == region.flowSecret.k = "str" /\ region.flowSecret.v # <<>>
         IN IF declared /\ req.secretHdr.k = "str" /\ req.secretHdr # region.flowSecret
              THEN pc = "done" /\ response.status = 401 /\ calls = <<>>
            ELSE IF /\ ~declared \/ req.secretHdr = region.flowSecret
                    /\ ~Truthy(region.sealToken) \/ ~Truthy(region.shopifyToken)
              THEN /\ pc = "done" /\ response.status = 500 /\ calls = <<>>
                   /\ ErrorOf(response) \in {"Seal token not configured for shop",
                                              "Shopify token not configured for shop"}
            ELSE TRUE

\* a wrong secret for a shop whose credentials are missing: 401, not 500
C18_Witness ==
  /\ mode = "full" /\ pc = "done"
  /\ ~ShopRejected /\ WrongSecret /\ CredentialMissing
  /\ response.status = 401 /\ calls = <<>>

\* C19: the by-id fetch is issued exactly when, after the optional by-name
\* lookup, orderId is known and email, customerId or orderName is missing;
\* when it answers, each of email, customerId and orderName that was present
\* before the fetch has the same value afterwards.
C19_ByIdOnlyFillsMissing ==
  [][/\ (mode = "full" /\ pc \in {"start", "findOrderByName"} /\ pc' # pc) =>
          (pc' = "getOrderById" <=>
             /\ Truthy(ctx'.orderId)
             /\ ~Truthy(ctx'.email) \/ ~Truthy(ctx'.customerId) \/ ~Truthy(ctx'.orderName))
     /\ pc = "getOrderById" =>
          \A f \in {"email", "customerId", "orderName"} : Truthy(ctx[f]) => ctx'[f] = ctx[f]
    ]_vars

\* the place of a remote call in the pipeline of the full variant
Stage(op) ==
  CASE op = "findOrderByName" -> 1
    [] op = "getOrderById" -> 2
    [] op = "sealSearchByEmail" -> 3
    [] op = "sealGetById" -> 4
    [] op = "tagsAdd" -> 5
    [] OTHER -> 0

\* C20: the remote calls of a request of the full variant are issued in the
\* order by-name lookup, by-id lookup, search, detail fetches, order tag
\* write, customer tag write; apart from detail fetches among themselves, a
\* call is issued only when every earlier call has settled, so no two
\* non-detail calls, and no non-detail call and a detail fetch it follows,
\* are in flight together.
C20_CallsSequential ==
  mode = "full" =>
    /\ \A i, j \in 1..Len(calls) :
         i < j =>
           /\ Stage(calls[i].op) <= Stage(calls[j].op)
           /\ Stage(calls[i].op) = Stage(calls[j].op) => calls[i].op \in {"sealGetById", "tagsAdd"}
           /\ (calls[i].op # "sealGetById" \/ calls[j].op # "sealGetById") =>
                calls[i].state # "inflight"
           /\ (calls[i].op = "tagsAdd" /\ calls[j].op = "tagsAdd") =>
                calls[i].arg.id = ensured.orderId /\ calls[j].arg.id = ensured.customerId
    /\ Cardinality({i \in 1..Len(calls) :
                      calls[i].op # "sealGetById" /\ calls[i].state = "inflight"}) <= 1
    /\ Cardinality(CallsOf("tagsAdd")) <= 2
    /\ \A i \in CallsOf("tagsAdd") :
         (\A j \in CallsOf("tagsAdd") : i <= j) => calls[i].arg.id = ensured.orderId

\* a request that went through all five kinds of call and two tag writes
C20_Witness ==
  /\ mode = "full" /\ pc = "done" /\ response.status = 200
  /\ \A op \in {"findOrderByName", "getOrderById", "sealSearchByEmail", "sealGetById"} :
       CallsOf(op) # {}
  /\ Cardinality(CallsOf("sealGetById")) >= 2
  /\ Cardinality(CallsOf("tagsAdd")) = 2

====
